---- MODULE Spec2Model ----
(***************************************************************************)
(* Model of the `pluck!` / `do_expression!` macros of src/src/lib.rs.       *)
(*                                                                         *)
(* A macro invocation is a step of the compiler's macro expander: it takes *)
(* the outermost unexpanded invocation of the closure body, matches its    *)
(* tokens against the arms of the macro and replaces the invocation by the *)
(* arm's transcription.  The state is the token sequence given to          *)
(* `pluck!`, the closure body under expansion and the expander's position. *)
(***************************************************************************)
EXTENDS Naturals, Sequences, FiniteSets

VARIABLES input, body, pc

vars == <<input, body, pc>>

(***************************************************************************)
(* Bounds of the model.                                                    *)
(***************************************************************************)
\* Largest number of token trees of a generated access chain, the tokens
\* inside parenthesized groups included (a bracket counts as one).
MaxSize == 3
\* Largest number of operands of a generated bracket content `0 + 0 + ...`.
MaxIdx == 2

(***************************************************************************)
(* Token trees (`tt`).  k is the kind, v the text of an atom, ts the       *)
(* token trees inside a delimited group.                                   *)
(***************************************************************************)
Atom(kind, text) == [k |-> kind, v |-> text, ts |-> <<>>]
Paren(toks) == [k |-> "paren", v |-> "()", ts |-> toks]
Bracket(toks) == [k |-> "bracket", v |-> "[]", ts |-> toks]

Star == Atom("star", "*")
Dot == Atom("dot", ".")
Amp == Atom("amp", "&")
Mut == Atom("mut", "mut")
Plus == Atom("plus", "+")
Name == Atom("ident", "name")
Address == Atom("ident", "address")
Street == Atom("ident", "street")
Zero == Atom("int", "0")

(***************************************************************************)
(* Expressions.  `value` is the closure parameter; a do_expression node is *)
(* a macro invocation that is not expanded yet.                            *)
(***************************************************************************)
Value == <<"value">>
IndexExpr(var, expr) == <<"Index", var, expr>>
DerefExpr(e) == <<"Deref", e>>
FieldExpr(var, expr) == <<"Field", var, expr>>
RefExpr(e) == <<"Ref", e>>
RefMutExpr(e) == <<"RefMut", e>>
Invocation(var, tail) == <<"do_expression", var, tail>>
Unexpanded == <<"pluck">>
CompileError == <<"compile_error">>

IsInvocation(e) == e[1] = "do_expression"

\* The `$var:expr` fragment: the tokens before the comma must parse as one
\* expression.  An interpolated fragment or a macro invocation is one
\* expression; `$var[$expr]` needs $expr to be an expression itself and
\* `$var.$expr` needs a field name or a tuple index.
\* Mutant: `$var` taken as any token trees, never parsed as an expression.
ParsesAnything(var) == TRUE
ParsesAsExpr(var) ==
    CASE var[1] = "Index" -> var[3].k \in {"ident", "int"}
      [] var[1] = "Field" -> var[3].k \in {"ident", "int"}
      [] OTHER -> TRUE

(***************************************************************************)
(* do_expression!: the matchers of the five arms and their transcriptions. *)
(***************************************************************************)
\* Mutant: the group arm written with `+`, needing a token in the group.
MatchesGroupNonEmpty(tail) ==
    tail # <<>> /\ Head(tail).k = "paren" /\ Head(tail).ts # <<>>
MatchesGroup(tail) == tail # <<>> /\ Head(tail).k = "paren"
MatchesIndex(tail) ==
    tail # <<>> /\ Head(tail).k = "bracket" /\ Len(Head(tail).ts) = 1
MatchesDeref(tail) == tail # <<>> /\ Head(tail).k = "star"
MatchesField(tail) == Len(tail) >= 2 /\ Head(tail).k = "dot"
MatchesEmpty(tail) == tail = <<>>

\* Mutant: the group stays in the remainder.
GroupArmKept(var, tail) == Invocation(Invocation(var, Head(tail).ts), tail)
\* Mutant: the tokens of the group are spliced into the remainder.
GroupArmSpliced(var, tail) == Invocation(var, Head(tail).ts \o Tail(tail))
GroupArm(var, tail) ==
    Invocation(Invocation(var, Head(tail).ts), Tail(tail))
IndexArm(var, tail) ==
    Invocation(IndexExpr(var, Head(tail).ts[1]), Tail(tail))
\* Mutant: the star is consumed and nothing is dereferenced.
DerefArmSkipped(var, tail) == Invocation(var, Tail(tail))
\* Mutant: the accumulated expression is dereferenced before the remainder
\* is applied to it.
DerefArmOfVar(var, tail) == Invocation(DerefExpr(var), Tail(tail))
DerefArm(var, tail) == DerefExpr(Invocation(var, Tail(tail)))
\* Mutant: the access wraps the expansion of the remainder, so the first
\* token becomes the outermost access.
FieldArmOutside(var, tail) ==
    FieldExpr(Invocation(var, SubSeq(tail, 3, Len(tail))), tail[2])
FieldArm(var, tail) ==
    Invocation(FieldExpr(var, tail[2]), SubSeq(tail, 3, Len(tail)))
EmptyArm(var, tail) == var

(***************************************************************************)
(* The expander works on the outermost invocation of the body.  Every      *)
(* operator of an expression has one operand, so the body is a spine.      *)
(***************************************************************************)
RECURSIVE HasInvocation(_)
HasInvocation(e) ==
    \/ IsInvocation(e)
    \/ Len(e) >= 2 /\ HasInvocation(e[2])

RECURSIVE Outermost(_)
Outermost(e) == IF IsInvocation(e) THEN e ELSE Outermost(e[2])

RECURSIVE Substitute(_, _)
Substitute(e, r) ==
    IF IsInvocation(e) THEN r
    ELSE <<e[1], Substitute(e[2], r)>> \o SubSeq(e, 3, Len(e))

Expanding == pc = "expand" /\ HasInvocation(body)
CurVar == Outermost(body)[2]
CurTail == Outermost(body)[3]

Transcribe(r) ==
    /\ body' = Substitute(body, r)
    /\ pc' = IF HasInvocation(body') THEN "expand" ELSE "done"
    /\ UNCHANGED input

Reject ==
    /\ body' = CompileError
    /\ pc' = "error"
    /\ UNCHANGED input

Group ==
    /\ Expanding /\ ParsesAsExpr(CurVar) /\ MatchesGroup(CurTail)
    /\ Transcribe(GroupArm(CurVar, CurTail))

Index ==
    /\ Expanding /\ ParsesAsExpr(CurVar) /\ MatchesIndex(CurTail)
    /\ Transcribe(IndexArm(CurVar, CurTail))

Deref ==
    /\ Expanding /\ ParsesAsExpr(CurVar) /\ MatchesDeref(CurTail)
    /\ Transcribe(DerefArm(CurVar, CurTail))

Field ==
    /\ Expanding /\ ParsesAsExpr(CurVar) /\ MatchesField(CurTail)
    /\ Transcribe(FieldArm(CurVar, CurTail))

Empty ==
    /\ Expanding /\ ParsesAsExpr(CurVar) /\ MatchesEmpty(CurTail)
    /\ Transcribe(EmptyArm(CurVar, CurTail))

NoRule ==
    /\ Expanding
    /\ \/ ~ParsesAsExpr(CurVar)
       \/ ~(\/ MatchesGroup(CurTail) \/ MatchesIndex(CurTail)
            \/ MatchesDeref(CurTail) \/ MatchesField(CurTail)
            \/ MatchesEmpty(CurTail))
    /\ Reject

(***************************************************************************)
(* The expansion of an expression as a function: one step of the expander  *)
(* (the arm the outermost invocation matches) and the expression left when *)
(* no invocation remains.                                                  *)
(***************************************************************************)
ArmOf(var, tail) ==
    CASE ~ParsesAsExpr(var) -> CompileError
      [] MatchesGroup(tail) -> GroupArm(var, tail)
      [] MatchesIndex(tail) -> IndexArm(var, tail)
      [] MatchesDeref(tail) -> DerefArm(var, tail)
      [] MatchesField(tail) -> FieldArm(var, tail)
      [] MatchesEmpty(tail) -> EmptyArm(var, tail)
      [] OTHER -> CompileError

ExpandOnce(e) ==
    LET inv == Outermost(e)
        r == ArmOf(inv[2], inv[3])
    IN IF r = CompileError THEN CompileError ELSE Substitute(e, r)

RECURSIVE Expand(_)
Expand(e) == IF HasInvocation(e) THEN Expand(ExpandOnce(e)) ELSE e

(***************************************************************************)
(* pluck!: the three arms, tried in order.                                 *)
(***************************************************************************)
MatchesMut(toks) == Len(toks) >= 3 /\ toks[1] = Amp /\ toks[2] = Mut
MatchesRef(toks) == Len(toks) >= 2 /\ toks[1] = Amp
MatchesValue(toks) == Len(toks) >= 1

MutArm(toks) == RefMutExpr(Invocation(Value, SubSeq(toks, 3, Len(toks))))
\* Mutant: the reference is taken of the seed, not of the expansion.
RefArmOfSeed(toks) == Invocation(RefExpr(Value), Tail(toks))
RefArm(toks) == RefExpr(Invocation(Value, Tail(toks)))
ValueArm(toks) == Invocation(Value, toks)

Start(e) ==
    /\ body' = e
    /\ pc' = "expand"
    /\ UNCHANGED input

PluckMut ==
    /\ pc = "pluck" /\ MatchesMut(input)
    /\ Start(MutArm(input))

PluckRef ==
    /\ pc = "pluck" /\ ~MatchesMut(input) /\ MatchesRef(input)
    /\ Start(RefArm(input))

PluckValue ==
    /\ pc = "pluck" /\ ~MatchesMut(input) /\ ~MatchesRef(input)
    /\ MatchesValue(input)
    /\ Start(ValueArm(input))

PluckNoRule ==
    /\ pc = "pluck"
    /\ ~MatchesMut(input) /\ ~MatchesRef(input) /\ ~MatchesValue(input)
    /\ Reject

(***************************************************************************)
(* The inputs: every modifier prefix in front of every chain of at most    *)
(* MaxSize token trees.                                                    *)
(***************************************************************************)
RECURSIVE IdxTokens(_)
IdxTokens(n) == IF n = 0 THEN <<>>
                ELSE IF n = 1 THEN <<Zero>>
                ELSE IdxTokens(n - 1) \o <<Plus, Zero>>

Brackets == { Bracket(IdxTokens(n)) : n \in 0..MaxIdx }
Atoms == {Name, Zero, Star, Dot, Amp, Mut} \cup Brackets

RECURSIVE Chains(_)
Chains(n) ==
    IF n = 0 THEN {<<>>}
    ELSE { <<t>> \o s : t \in Atoms, s \in Chains(n - 1) }
         \cup UNION { { <<Paren(g)>> \o s : g \in Chains(j),
                                            s \in Chains(n - 1 - j) }
                      : j \in 0..(n - 1) }

\* The chains of the crate's tests and documentation that are longer than
\* the generated ones.
TestChains ==
    { <<Paren(<<Star, Bracket(<<Zero>>)>>), Bracket(<<Zero>>)>>,
      <<Paren(<<Star, Bracket(<<Zero>>)>>), Dot, Name>>,
      <<Dot, Address, Dot, Street>>,
      <<Star, Bracket(<<Zero>>), Bracket(<<Zero>>)>> }

Modifiers == { <<>>, <<Amp>>, <<Amp, Mut>> }
Inputs ==
    { m \o c : m \in Modifiers,
               c \in TestChains \cup UNION { Chains(n) : n \in 0..MaxSize } }

Init ==
    /\ input \in Inputs
    /\ body = Unexpanded
    /\ pc = "pluck"

Next ==
    \/ PluckMut \/ PluckRef \/ PluckValue \/ PluckNoRule
    \/ Group \/ Index \/ Deref \/ Field \/ Empty \/ NoRule

Spec == Init /\ [][Next]_vars

\* The expander keeps expanding while an invocation is left.
FairSpec == Spec /\ WF_vars(Next)

(***************************************************************************)
(* Properties.                                                             *)
(***************************************************************************)
Finished == pc \in {"done", "error"}

\* What the call site is left with: the closure body, or no function.
Result == IF pc = "done" THEN body ELSE CompileError

\* expand(acc, toks): the expansion of the chain toks applied to acc.
Expansion(acc, toks) ==
    IF acc = CompileError THEN CompileError
    ELSE Expand(Invocation(acc, toks))

RefOf(e) == IF e = CompileError THEN CompileError ELSE RefExpr(e)
RefMutOf(e) == IF e = CompileError THEN CompileError ELSE RefMutExpr(e)
DerefOf(e) == IF e = CompileError THEN CompileError ELSE DerefExpr(e)

IsProperty(t) == t.k \in {"ident", "int"}
IsIndex(t) == t.k = "bracket" /\ Len(t.ts) = 1 /\ IsProperty(t.ts[1])

RECURSIVE DerefTimes(_, _)
DerefTimes(k, e) == IF k = 0 THEN e ELSE DerefExpr(DerefTimes(k - 1, e))

Stars(k) == [i \in 1..k |-> Star]

\* C1: the modifier comes from the leading tokens only.  For a non-empty
\* chain C, `&mut C` gives a mutable reference to expand(value, C), `& C`
\* (C not starting with `mut`) a shared reference to it and any other input
\* expand(value, input) itself; the reference is the outermost operator.
C1_Modifier ==
    (Finished /\ input # <<>>) =>
        LET n == Len(input) IN
        IF n >= 3 /\ input[1] = Amp /\ input[2] = Mut
        THEN /\ Result = RefMutOf(Expansion(Value, SubSeq(input, 3, n)))
             /\ pc = "done" => body[1] = "RefMut"
        ELSE IF n >= 2 /\ input[1] = Amp /\ input[2] # Mut
        THEN /\ Result = RefOf(Expansion(Value, Tail(input)))
             /\ pc = "done" => body[1] = "Ref"
        ELSE Result = Expansion(Value, input)

C1_Witness ==
    /\ pc = "done"
    /\ input = <<Amp>> \o Stars(3)
    /\ body = RefExpr(DerefTimes(3, Value))

\* C2: a chain of field/tuple tokens and one-token index tokens is applied
\* to the seed left to right: the last token is the outermost access, the
\* first the innermost, and every token is used exactly once.
RECURSIVE PostfixOnly(_)
PostfixOnly(chain) ==
    \/ chain = <<>>
    \/ /\ Len(chain) >= 2 /\ chain[1] = Dot /\ IsProperty(chain[2])
       /\ PostfixOnly(SubSeq(chain, 3, Len(chain)))
    \/ /\ chain # <<>> /\ IsIndex(chain[1])
       /\ PostfixOnly(Tail(chain))

RECURSIVE LastOutermost(_)
LastOutermost(chain) ==
    LET n == Len(chain) IN
    IF n = 0 THEN Value
    ELSE IF chain[n].k = "bracket"
    THEN IndexExpr(LastOutermost(SubSeq(chain, 1, n - 1)), chain[n].ts[1])
    ELSE FieldExpr(LastOutermost(SubSeq(chain, 1, n - 2)), chain[n])

C2_LeftToRight ==
    (Finished /\ input # <<>> /\ PostfixOnly(input)) =>
        (pc = "done" /\ body = LastOutermost(input))

C2_Witness ==
    /\ pc = "done"
    /\ input = <<Dot, Address, Dot, Street>>
    /\ body = FieldExpr(FieldExpr(Value, Address), Street)

\* C3: k stars (k = 1, 2, 3) dereference the seed exactly k times, so the
\* closure applied to a value behind k references returns the value.
IntValue(n) == <<"int", n>>
RefTo(v) == <<"&", v>>

RECURSIVE RefTimes(_, _)
RefTimes(k, v) == IF k = 0 THEN v ELSE RefTo(RefTimes(k - 1, v))

RECURSIVE Eval(_, _)
Eval(e, v) ==
    IF e[1] = "Deref"
    THEN LET r == Eval(e[2], v)
         IN IF r[1] = "&" THEN r[2] ELSE <<"type_error">>
    ELSE IF e = Value THEN v ELSE <<"type_error">>

C3_DerefChain ==
    \A k \in 1..3 :
        (Finished /\ input = Stars(k)) =>
            /\ pc = "done"
            /\ body = DerefTimes(k, Value)
            /\ \A n \in 0..2 : Eval(body, RefTimes(k, IntValue(n))) = IntValue(n)

C3_Witness ==
    /\ pc = "done"
    /\ input = Stars(3)
    /\ body = DerefExpr(DerefExpr(DerefExpr(Value)))
    /\ Eval(body, RefTo(RefTo(RefTo(IntValue(2))))) = IntValue(2)

\* C4: a chain `(G) T` expands to expand(expand(acc, G), T): the group is
\* expanded on the accumulated expression and its result is one operand of
\* the remainder, so `(*[0])[0]` indexes the dereference of value[0],
\* unlike `*[0][0]`, and `(*[0]).name` reads `name` of that dereference.
DerefFirst == DerefExpr(IndexExpr(Value, Zero))

C4_GroupAtomic ==
    /\ (Expanding /\ MatchesGroup(CurTail)) =>
           Expand(Invocation(CurVar, CurTail)) =
               Expansion(Expansion(CurVar, Head(CurTail).ts), Tail(CurTail))
    /\ (Finished /\ MatchesGroup(input)) =>
           Result = Expansion(Expansion(Value, Head(input).ts), Tail(input))
    /\ (Finished /\ input = <<Paren(<<Star, Bracket(<<Zero>>)>>),
                              Bracket(<<Zero>>)>>) =>
           body = IndexExpr(DerefFirst, Zero)
    /\ (Finished /\ input = <<Star, Bracket(<<Zero>>), Bracket(<<Zero>>)>>) =>
           body = DerefExpr(IndexExpr(IndexExpr(Value, Zero), Zero))
    /\ (Finished /\ input = <<Paren(<<Star, Bracket(<<Zero>>)>>), Dot, Name>>) =>
           body = FieldExpr(DerefFirst, Name)

C4_Witness ==
    /\ pc = "done"
    /\ input = <<Paren(<<Star, Bracket(<<Zero>>)>>), Bracket(<<Zero>>)>>
    /\ body = IndexExpr(DerefExpr(IndexExpr(Value, Zero)), Zero)

\* C5: a function is produced only when the chain is non-empty and, at
\* every step, the remaining tokens are empty or start with a group, a
\* bracketed index, `*`, or a dot followed by an identifier or integer;
\* every other input ends in a compile error and no expression.
RECURSIVE Conforms(_)
Conforms(toks) ==
    \/ toks = <<>>
    \/ /\ toks # <<>> /\ Head(toks).k = "paren"
       /\ Conforms(Head(toks).ts) /\ Conforms(Tail(toks))
    \/ /\ toks # <<>> /\ Head(toks).k \in {"bracket", "star"}
       /\ Conforms(Tail(toks))
    \/ /\ Len(toks) >= 2 /\ Head(toks).k = "dot" /\ IsProperty(toks[2])
       /\ Conforms(SubSeq(toks, 3, Len(toks)))

\* The chain left when the modifier at the very start is taken off.
ChainOf(toks) ==
    IF Len(toks) >= 3 /\ toks[1] = Amp /\ toks[2] = Mut
    THEN SubSeq(toks, 3, Len(toks))
    ELSE IF Len(toks) >= 2 /\ toks[1] = Amp THEN Tail(toks)
    ELSE toks

C5_OnlyRuleShapes ==
    /\ pc = "done" => (input # <<>> /\ Conforms(ChainOf(input)))
    /\ (Finished /\ ~(input # <<>> /\ Conforms(ChainOf(input)))) =>
           (pc = "error" /\ body = CompileError)

C5_Witness ==
    /\ pc = "error"
    /\ input = <<Dot, Star>>
    /\ body = CompileError

\* C6 as stated: for `* T` the expansion is expand(Deref(acc), T).
C6_DerefBeforeRemainder ==
    (Expanding /\ MatchesDeref(CurTail)) =>
        Expand(Invocation(CurVar, CurTail)) =
            Expansion(DerefExpr(CurVar), Tail(CurTail))

\* C6 as amended: for `* T` the expansion is Deref(expand(acc, T)); the
\* tokens after `*` are applied to the accumulated expression and the
\* dereference is applied to their result.
C6_DerefWrapsRemainder ==
    /\ (Expanding /\ MatchesDeref(CurTail)) =>
           Expand(Invocation(CurVar, CurTail)) =
               DerefOf(Expansion(CurVar, Tail(CurTail)))
    /\ (Finished /\ MatchesDeref(input)) =>
           Result = DerefOf(Expansion(Value, Tail(input)))

C6_Witness ==
    /\ pc = "done"
    /\ input = <<Star, Bracket(<<Zero>>)>>
    /\ body = DerefExpr(IndexExpr(Value, Zero))

\* C7 as stated: whenever the remaining tokens start with a bracketed
\* sub-expression of one or several tokens, the index rule applies and
\* the accumulated expression is rewrapped as an index operation.
C7_IndexAnyLength ==
    (/\ Expanding /\ ParsesAsExpr(CurVar)
     /\ CurTail # <<>> /\ Head(CurTail).k = "bracket"
     /\ Head(CurTail).ts # <<>>) =>
        /\ MatchesIndex(CurTail)
        /\ ArmOf(CurVar, CurTail) # CompileError
        /\ ArmOf(CurVar, CurTail)[2][1] = "Index"

\* C8: expansion terminates: every rule applied to remaining tokens
\* leaves fewer unprocessed tokens and every invocation it creates has
\* fewer tokens than the one it replaces; the rule for no remaining tokens
\* creates no invocation.
RECURSIVE Tokens(_)
Tokens(toks) ==
    IF toks = <<>> THEN 0
    ELSE 1 + Tokens(Head(toks).ts) + Tokens(Tail(toks))

RECURSIVE Unprocessed(_)
Unprocessed(e) ==
    IF IsInvocation(e) THEN Tokens(e[3]) + Unprocessed(e[2])
    ELSE IF Len(e) >= 2 THEN Unprocessed(e[2])
    ELSE 0

\* The token counts of the invocations of r that are not part of var.
RECURSIVE Created(_, _)
Created(r, var) ==
    IF r = var THEN {}
    ELSE IF IsInvocation(r) THEN {Tokens(r[3])} \cup Created(r[2], var)
    ELSE IF Len(r) >= 2 THEN Created(r[2], var)
    ELSE {}

C8_Terminates ==
    /\ [][Expanding =>
            \/ pc' = "error"
            \/ /\ CurTail = <<>>
               /\ Unprocessed(body') = Unprocessed(body)
               /\ Created(ArmOf(CurVar, CurTail), CurVar) = {}
            \/ /\ CurTail # <<>>
               /\ Unprocessed(body') < Unprocessed(body)
               /\ \A n \in Created(ArmOf(CurVar, CurTail), CurVar) :
                      n < Tokens(CurTail)]_vars
    /\ <>Finished

C8_Witness ==
    /\ pc = "done"
    /\ input = <<Paren(<<Paren(<<Star>>)>>)>>
    /\ body = DerefExpr(Value)

\* C9: within one grouping level the position of the `*` tokens among the
\* field, index and group tokens does not matter: the expansion is the
\* dereferences, as many as there are stars, of the expansion of the other
\* tokens in their order.
RECURSIVE UnitParsable(_)
UnitParsable(chain) ==
    \/ chain = <<>>
    \/ /\ Len(chain) >= 2 /\ Head(chain).k = "dot" /\ IsProperty(chain[2])
       /\ UnitParsable(SubSeq(chain, 3, Len(chain)))
    \/ /\ chain # <<>> /\ Head(chain).k # "dot"
       /\ UnitParsable(Tail(chain))

IsStar(t) == t = Star
NotStar(t) == t # Star
StarCount(chain) == Len(SelectSeq(chain, IsStar))
WithoutStars(chain) == SelectSeq(chain, NotStar)

RECURSIVE DerefTimesOf(_, _)
DerefTimesOf(k, e) == IF k = 0 THEN e ELSE DerefOf(DerefTimesOf(k - 1, e))

C9_StarPosition ==
    /\ (Expanding /\ UnitParsable(CurTail)) =>
           LET k == StarCount(CurTail)
               rest == WithoutStars(CurTail)
               full == Expand(Invocation(CurVar, CurTail))
           IN /\ full = DerefTimesOf(k, Expansion(CurVar, rest))
              /\ full = Expansion(CurVar, Stars(k) \o rest)
              /\ full = Expansion(CurVar, rest \o Stars(k))
    /\ (Finished /\ input # <<>> /\ input[1] # Amp /\ UnitParsable(input)) =>
           Result = DerefTimesOf(StarCount(input),
                                 Expansion(Value, WithoutStars(input)))
    /\ (Finished /\ input \in { <<Star, Bracket(<<Zero>>)>>,
                                <<Bracket(<<Zero>>), Star>> }) =>
           body = DerefExpr(IndexExpr(Value, Zero))
    /\ (Finished /\ input = <<Bracket(<<Zero>>), Star, Bracket(<<Zero>>)>>) =>
           body = DerefExpr(IndexExpr(IndexExpr(Value, Zero), Zero))

C9_Witness ==
    /\ pc = "done"
    /\ input = <<Bracket(<<Zero>>), Star, Bracket(<<Zero>>)>>
    /\ body = DerefExpr(IndexExpr(IndexExpr(Value, Zero), Zero))

\* C10: an empty group is the identity, expand(acc, `()` T) = expand(acc, T);
\* pluck rejects a chain of no tokens, but `()`, `&()` and `&mut ()` give the
\* bare seed, a reference to it and a mutable reference to it.
C10_EmptyGroup ==
    /\ (Expanding /\ CurTail # <<>> /\ Head(CurTail) = Paren(<<>>)) =>
           Expand(Invocation(CurVar, CurTail)) =
               Expansion(CurVar, Tail(CurTail))
    /\ (Finished /\ input # <<>> /\ Head(input) = Paren(<<>>)) =>
           Result = Expansion(Value, Tail(input))
    /\ (Finished /\ input \in {<<>>, <<Amp>>, <<Amp, Mut>>}) => pc = "error"
    /\ (Finished /\ input = <<Paren(<<>>)>>) => (pc = "done" /\ body = Value)
    /\ (Finished /\ input = <<Amp, Paren(<<>>)>>) =>
           (pc = "done" /\ body = RefExpr(Value))
    /\ (Finished /\ input = <<Amp, Mut, Paren(<<>>)>>) =>
           (pc = "done" /\ body = RefMutExpr(Value))

C10_Witness ==
    /\ pc = "done"
    /\ input = <<Amp, Mut, Paren(<<>>)>>
    /\ body = RefMutExpr(Value)

====
